---- MODULE Spec2Model ----
(***************************************************************************)
(* Model of goRedis: the RESP codec (resp.go, held in src/main.go), the    *)
(* command dispatcher and the per-connection loop (server.go, held in      *)
(* src/unnamed/part_000).                                                  *)
(*                                                                         *)
(* A Go string is a sequence of chunks.  Every byte that travels on the    *)
(* wire as protocol framing or as client data is a chunk of one character; *)
(* the fixed texts of error messages are single chunks (their length is    *)
(* never computed by the program).                                         *)
(***************************************************************************)
EXTENDS Integers, Sequences, FiniteSets, TLC

\* ------------------------------------------------------------------ bounds
NumConns == 2
MaxFrames == 3
MaxNodes == 3
MaxIters == 4
MaxWords == 3
MaxProtoFrames == 2

Conns == 1..NumConns

\* ------------------------------------------------------- RESP data types
RESP_SIMPLE_STRING == "+"
RESP_ERROR == "-"
RESP_INTEGER == ":"
RESP_BULK_STRING == "$"
RESP_ARRAY == "*"

CR == "\r"
LF == "\n"
CRLF == <<CR, LF>>

\* The nil *RESPValue and the nil error.
Nil == [Type |-> "nil"]
NoErr == <<>>

\* io.EOF and io.ErrUnexpectedEOF, by their Error() text.
EOF == <<"EOF">>
ErrUnexpectedEOF == <<"unexpected EOF">>
\* Any other read error of the connection (ECONNRESET and the like).
ErrReset == <<"read: connection reset by peer">>

NewRESPValue(respType) ==
  [Type |-> respType, Str |-> <<>>, Num |-> 0, IsNull |-> FALSE, Array |-> <<>>]

\* ------------------------------------------------------------ strconv
Digits == <<"0", "1", "2", "3", "4", "5", "6", "7", "8", "9">>

IsDigit(b) == \E d \in 1..10 : Digits[d] = b

DigitVal(b) == (CHOOSE d \in 1..10 : Digits[d] = b) - 1

RECURSIVE FormatNat(_)
FormatNat(n) ==
  IF n < 10 THEN <<Digits[n + 1]>>
  ELSE FormatNat(n \div 10) \o <<Digits[(n % 10) + 1]>>

\* strconv.FormatInt(n, 10) and strconv.Itoa(n).
FormatInt(n) == IF n < 0 THEN <<"-">> \o FormatNat(0 - n) ELSE FormatNat(n)

Itoa(n) == FormatInt(n)

RECURSIVE DigitsVal(_)
DigitsVal(s) ==
  IF s = <<>> THEN 0
  ELSE DigitsVal(SubSeq(s, 1, Len(s) - 1)) * 10 + DigitVal(s[Len(s)])

\* strconv.ParseInt(s, 10, 64) and strconv.Atoi(s): an optional sign, then
\* one or more decimal digits.  (The texts of the model are far shorter than
\* the 19 digits at which the range error of the library starts.)
ParseInt(s) ==
  LET signed == s # <<>> /\ s[1] \in {"+", "-"}
      body == IF signed THEN Tail(s) ELSE s
  IN IF body = <<>> \/ (\E i \in 1..Len(body) : ~IsDigit(body[i]))
     THEN [ok |-> FALSE, n |-> 0]
     ELSE [ok |-> TRUE,
           n |-> IF s[1] = "-" THEN 0 - DigitsVal(body) ELSE DigitsVal(body)]

Atoi(s) == ParseInt(s)

\* The Error() text of a failed strconv call on s.
NumError(fn, s) == <<fn, ": parsing \"">> \o s \o <<"\": invalid syntax">>

\* ------------------------------------------------------------ strings
WhiteSpace == {" ", "\t", "\n", "\r"}

RECURSIVE TrimLeft(_)
TrimLeft(s) ==
  IF s # <<>> /\ s[1] \in WhiteSpace THEN TrimLeft(Tail(s)) ELSE s

RECURSIVE TrimRight(_)
TrimRight(s) ==
  IF s # <<>> /\ s[Len(s)] \in WhiteSpace
  THEN TrimRight(SubSeq(s, 1, Len(s) - 1)) ELSE s

\* strings.TrimSpace
TrimSpace(s) == TrimRight(TrimLeft(s))

Lower == <<"a", "b", "c", "d", "e", "f", "g", "h", "i", "j", "k", "l", "m",
           "n", "o", "p", "q", "r", "s", "t", "u", "v", "w", "x", "y", "z">>
Upper == <<"A", "B", "C", "D", "E", "F", "G", "H", "I", "J", "K", "L", "M",
           "N", "O", "P", "Q", "R", "S", "T", "U", "V", "W", "X", "Y", "Z">>

\* strings.ToUpper
ToUpper(s) ==
  [i \in 1..Len(s) |->
     IF \E j \in 1..26 : Lower[j] = s[i]
     THEN Upper[CHOOSE j \in 1..26 : Lower[j] = s[i]]
     ELSE s[i]]

\* -------------------------------------------------------- bufio.Reader
\* What a read finds once the buffered bytes are used up depends on the
\* connection: "open" blocks, "eof" returns io.EOF, "reset" returns another
\* error.
EndErr(ek) == IF ek = "eof" THEN EOF ELSE ErrReset

RECURSIVE IndexLF(_, _)
IndexLF(buf, i) ==
  IF i > Len(buf) THEN 0 ELSE IF buf[i] = LF THEN i ELSE IndexLF(buf, i + 1)

\* reader.ReadString('\n')
ReadString(buf, ek) ==
  LET i == IndexLF(buf, 1) IN
  IF i > 0
  THEN [st |-> "ok", line |-> SubSeq(buf, 1, i),
        rest |-> SubSeq(buf, i + 1, Len(buf)), err |-> NoErr]
  ELSE IF ek = "open"
  THEN [st |-> "block", line |-> <<>>, rest |-> buf, err |-> NoErr]
  ELSE [st |-> "err", line |-> buf, rest |-> <<>>, err |-> EndErr(ek)]

\* io.ReadFull(reader, data) with len(data) = n
ReadFull(buf, n, ek) ==
  IF Len(buf) >= n
  THEN [st |-> "ok", data |-> SubSeq(buf, 1, n),
        rest |-> SubSeq(buf, n + 1, Len(buf)), err |-> NoErr]
  ELSE IF ek = "open"
  THEN [st |-> "block", data |-> <<>>, rest |-> buf, err |-> NoErr]
  ELSE [st |-> "err", data |-> buf, rest |-> <<>>,
        err |-> IF ek = "eof" /\ Len(buf) > 0 THEN ErrUnexpectedEOF
                ELSE EndErr(ek)]

\* ------------------------------------------------------------ ParseRESP
\* The outcomes of one call: a value, an error, a read that blocks, or the
\* run-time panic of make() with a negative length.
POk(v, rest) == [st |-> "ok", value |-> v, err |-> NoErr, rest |-> rest]
PErr(e, rest) == [st |-> "err", value |-> Nil, err |-> e, rest |-> rest]
PBlock(rest) == [st |-> "block", value |-> Nil, err |-> NoErr, rest |-> rest]
PPanic(rest) == [st |-> "panic", value |-> Nil, err |-> NoErr, rest |-> rest]

\* (the line terminator after the payload is left in the reader)
ParseBulkBodyNoTerminator(value, length, buf, ek) ==
  LET d == ReadFull(buf, length, ek) IN
  IF d.st = "block" THEN PBlock(buf)
  ELSE IF d.st = "err"
  THEN PErr(<<"failed to read bulk string: ">> \o d.err, d.rest)
  ELSE POk([value EXCEPT !.Str = d.data], d.rest)

\* (one Read in place of io.ReadFull, its count used and the errors dropped)
ParseBulkBodyShort(value, length, buf, ek) ==
  LET d == IF Len(buf) < length /\ ek # "open"
           THEN [st |-> "ok", data |-> buf, rest |-> <<>>, err |-> NoErr]
           ELSE ReadFull(buf, length, ek)
      t == ReadString(d.rest, ek)
  IN IF d.st = "block" \/ t.st = "block" THEN PBlock(buf)
     ELSE POk([value EXCEPT !.Str = d.data], t.rest)

ParseBulkBody(value, length, buf, ek) ==
  LET d == ReadFull(buf, length, ek) IN
  IF d.st = "block" THEN PBlock(buf)
  ELSE IF d.st = "err"
  THEN PErr(<<"failed to read bulk string: ">> \o d.err, d.rest)
  ELSE LET t == ReadString(d.rest, ek) IN
       IF t.st = "block" THEN PBlock(buf)
       ELSE IF t.st = "err"
       THEN PErr(<<"failed to read bulk string terminator: ">> \o t.err, t.rest)
       ELSE POk([value EXCEPT !.Str = d.data], t.rest)

RECURSIVE ParseRESP(_, _), ParseElems(_, _, _, _, _)
ParseRESP(buf, ek) ==
  LET r == ReadString(buf, ek) IN
  IF r.st = "block" THEN PBlock(buf)
  ELSE IF r.st = "err" THEN PErr(r.err, r.rest)
  ELSE
  LET line == TrimSpace(r.line) IN
  IF Len(line) = 0 THEN PErr(<<"empty line">>, r.rest)
  ELSE
  LET value == NewRESPValue(line[1])
      arg == Tail(line)
  IN
  CASE line[1] = RESP_SIMPLE_STRING -> POk([value EXCEPT !.Str = arg], r.rest)
    [] line[1] = RESP_ERROR -> POk([value EXCEPT !.Str = arg], r.rest)
    [] line[1] = RESP_INTEGER ->
         LET num == ParseInt(arg) IN
         IF ~num.ok
         THEN PErr(<<"invalid integer: ">> \o NumError("strconv.ParseInt", arg),
                   r.rest)
         ELSE POk([value EXCEPT !.Num = num.n], r.rest)
    [] line[1] = RESP_BULK_STRING ->
         LET length == Atoi(arg) IN
         IF ~length.ok
         THEN PErr(<<"invalid bulk string length: ">>
                     \o NumError("strconv.Atoi", arg), r.rest)
         ELSE IF length.n = -1 THEN POk([value EXCEPT !.IsNull = TRUE], r.rest)
         ELSE IF length.n < 0 THEN PPanic(r.rest)
         ELSE ParseBulkBody(value, length.n, r.rest, ek)
    [] line[1] = RESP_ARRAY ->
         LET count == Atoi(arg) IN
         IF ~count.ok
         THEN PErr(<<"invalid array length: ">>
                     \o NumError("strconv.Atoi", arg), r.rest)
         ELSE IF count.n = -1 THEN POk([value EXCEPT !.IsNull = TRUE], r.rest)
         ELSE IF count.n < 0 THEN PPanic(r.rest)
         ELSE ParseElems(value, count.n, 0, r.rest, ek)
    [] OTHER -> PErr(<<"unknown RESP type: ", line[1]>>, r.rest)

\* The loop over the elements of an array; i elements are already in value.
ParseElems(value, count, i, buf, ek) ==
  IF i >= count THEN POk(value, buf)
  ELSE LET e == ParseRESP(buf, ek) IN
       IF e.st = "block" THEN PBlock(buf)
       ELSE IF e.st = "panic" THEN PPanic(e.rest)
       ELSE IF e.st = "err"
       THEN PErr(<<"failed to parse array element ">> \o Itoa(i) \o <<": ">>
                   \o e.err, e.rest)
       ELSE ParseElems([value EXCEPT !.Array = Append(@, e.value)],
                       count, i + 1, e.rest, ek)

\* -------------------------------------------------------- SerializeRESP
RECURSIVE SerializeRESP(_), SerializeElems(_, _)
SerializeRESP(v) ==
  CASE v.Type = RESP_SIMPLE_STRING -> <<RESP_SIMPLE_STRING>> \o v.Str \o CRLF
    [] v.Type = RESP_ERROR -> <<RESP_ERROR>> \o v.Str \o CRLF
    [] v.Type = RESP_INTEGER -> <<RESP_INTEGER>> \o FormatInt(v.Num) \o CRLF
    [] v.Type = RESP_BULK_STRING ->
         IF v.IsNull THEN <<RESP_BULK_STRING, "-", "1">> \o CRLF
         ELSE <<RESP_BULK_STRING>> \o Itoa(Len(v.Str)) \o CRLF \o v.Str \o CRLF
    [] v.Type = RESP_ARRAY ->
         <<RESP_ARRAY>> \o Itoa(Len(v.Array)) \o CRLF
           \o SerializeElems(v.Array, 1)
    [] OTHER -> <<>>

SerializeElems(arr, i) ==
  IF i > Len(arr) THEN <<>>
  ELSE SerializeRESP(arr[i]) \o SerializeElems(arr, i + 1)

\* ------------------------------------------------------------ dispatcher
ErrorResp(text) == [NewRESPValue(RESP_ERROR) EXCEPT !.Str = text]

\* What processCommand does with a command: return resp at once, or go
\* through the store section of handleSet or handleGet with key and value.
Reply(resp) == [op |-> "reply", resp |-> resp, key |-> <<>>, value |-> <<>>]

handlePing == [NewRESPValue(RESP_SIMPLE_STRING) EXCEPT !.Str = <<"P", "O", "N", "G">>]

handleEcho(command) ==
  IF Len(command.Array) < 2
  THEN ErrorResp(<<"ERR wrong number of arguments for 'echo' command">>)
  ELSE IF command.Array[2].Type # RESP_BULK_STRING
  THEN ErrorResp(<<"ERR Protocol error: expected bulk string for echo argument">>)
  ELSE [NewRESPValue(RESP_BULK_STRING) EXCEPT !.Str = command.Array[2].Str]

\* (key and value taken from each other's element)
handleSetSwapped(command) ==
  IF Len(command.Array) < 3
  THEN Reply(ErrorResp(<<"ERR wrong number of arguments for 'set' command">>))
  ELSE IF command.Array[2].Type # RESP_BULK_STRING
          \/ command.Array[3].Type # RESP_BULK_STRING
  THEN Reply(ErrorResp(<<"ERR Protocol error: expected bulk string for key and value">>))
  ELSE [op |-> "set", resp |-> Nil,
        key |-> command.Array[3].Str, value |-> command.Array[2].Str]

\* (no check of the types of key and value)
handleSetUntyped(command) ==
  IF Len(command.Array) < 3
  THEN Reply(ErrorResp(<<"ERR wrong number of arguments for 'set' command">>))
  ELSE [op |-> "set", resp |-> Nil,
        key |-> command.Array[2].Str, value |-> command.Array[3].Str]

\* handleSet up to the point where it takes the lock.
handleSet(command) ==
  IF Len(command.Array) < 3
  THEN Reply(ErrorResp(<<"ERR wrong number of arguments for 'set' command">>))
  ELSE IF command.Array[2].Type # RESP_BULK_STRING
          \/ command.Array[3].Type # RESP_BULK_STRING
  THEN Reply(ErrorResp(<<"ERR Protocol error: expected bulk string for key and value">>))
  ELSE [op |-> "set", resp |-> Nil,
        key |-> command.Array[2].Str, value |-> command.Array[3].Str]

\* handleGet up to the point where it takes the read lock.
handleGet(command) ==
  IF Len(command.Array) < 2
  THEN Reply(ErrorResp(<<"ERR wrong number of arguments for 'get' command">>))
  ELSE IF command.Array[2].Type # RESP_BULK_STRING
  THEN Reply(ErrorResp(<<"ERR Protocol error: expected bulk string for key">>))
  ELSE [op |-> "get", resp |-> Nil, key |-> command.Array[2].Str, value |-> <<>>]

\* The reply of handleSet after the store section.
SetReply == [NewRESPValue(RESP_SIMPLE_STRING) EXCEPT !.Str = <<"O", "K">>]

\* (a GET that does not look at exists)
GetReplyNoNull(value, exists) ==
  [NewRESPValue(RESP_BULK_STRING) EXCEPT !.Str = value]

\* The reply of handleGet after the store section.
GetReply(value, exists) ==
  IF ~exists THEN [NewRESPValue(RESP_BULK_STRING) EXCEPT !.IsNull = TRUE]
  ELSE [NewRESPValue(RESP_BULK_STRING) EXCEPT !.Str = value]

handleQuit == [NewRESPValue(RESP_SIMPLE_STRING) EXCEPT !.Str = <<"O", "K">>]

InfoBanner == <<"#", " ", "S", "e", "r", "v", "e", "r", "\r", "\n", "r", "e", "d", "i", "s", "_", "v", "e", "r", "s", "i", "o", "n", ":", "0", ".", "1", ".", "0", "\r", "\n">>

handleInfo == [NewRESPValue(RESP_BULK_STRING) EXCEPT !.Str = InfoBanner]

\* (the empty-command check made before the array check)
processCommandEmptyFirst(command) ==
  IF Len(command.Array) = 0
  THEN Reply(ErrorResp(<<"ERR empty command">>))
  ELSE IF command.Type # RESP_ARRAY \/ command.IsNull
  THEN Reply(ErrorResp(<<"ERR Protocol error: expected array">>))
  ELSE IF command.Array[1].Type # RESP_BULK_STRING
  THEN Reply(ErrorResp(<<"ERR Protocol error: expected bulk string for command">>))
  ELSE
  LET cmd == ToUpper(command.Array[1].Str) IN
  CASE cmd = <<"P", "I", "N", "G">> -> Reply(handlePing)
    [] cmd = <<"E", "C", "H", "O">> -> Reply(handleEcho(command))
    [] cmd = <<"S", "E", "T">> -> handleSet(command)
    [] cmd = <<"G", "E", "T">> -> handleGet(command)
    [] cmd = <<"Q", "U", "I", "T">> -> Reply(handleQuit)
    [] cmd = <<"I", "N", "F", "O">> -> Reply(handleInfo)
    [] OTHER -> Reply(ErrorResp(<<"ERR unknown command '">> \o cmd \o <<"'">>))

processCommand(command) ==
  IF command.Type # RESP_ARRAY \/ command.IsNull
  THEN Reply(ErrorResp(<<"ERR Protocol error: expected array">>))
  ELSE IF Len(command.Array) = 0
  THEN Reply(ErrorResp(<<"ERR empty command">>))
  ELSE IF command.Array[1].Type # RESP_BULK_STRING
  THEN Reply(ErrorResp(<<"ERR Protocol error: expected bulk string for command">>))
  ELSE
  LET cmd == ToUpper(command.Array[1].Str) IN
  CASE cmd = <<"P", "I", "N", "G">> -> Reply(handlePing)
    [] cmd = <<"E", "C", "H", "O">> -> Reply(handleEcho(command))
    [] cmd = <<"S", "E", "T">> -> handleSet(command)
    [] cmd = <<"G", "E", "T">> -> handleGet(command)
    [] cmd = <<"Q", "U", "I", "T">> -> Reply(handleQuit)
    [] cmd = <<"I", "N", "F", "O">> -> Reply(handleInfo)
    [] OTHER -> Reply(ErrorResp(<<"ERR unknown command '">> \o cmd \o <<"'">>))

\* ---------------------------------------------------------------- state
VARIABLES
  sent,     \* history: per connection, the frames its client sends
  inbuf,    \* per connection: the bytes of the client not yet consumed by the reader
  endk,     \* per connection: "open", or how the client ended it: "eof", "reset"
  net,      \* per connection: "reliable" (orderly close only, writes succeed) or "faulty"
  pc,       \* per connection: where its handleConnection goroutine stands
  command,  \* per connection: the command decoded by the running iteration
  cur,      \* per connection: key, value, exists of the running handleSet/handleGet
  resp,     \* per connection: the response about to be written
  out,      \* per connection: the conn.Write calls made, with their outcome
  trace,    \* per connection: history of the loop iterations that produce a reply
  store,    \* rs.store
  mutex,    \* rs.mutex
  crashed,  \* the process died of a run-time panic
  lastSet,  \* history: per key, the SET that took the write lock last
  cv,       \* codec check: the value under test
  cpc,      \* codec check: position
  cenc,     \* codec check: SerializeRESP(cv)
  cres      \* codec check: result of ParseRESP or processCommand

srvVars == <<sent, inbuf, endk, net, pc, command, cur, resp, out, trace, store, mutex, crashed, lastSet>>
codecVars == <<cv, cpc, cenc, cres>>
vars == <<sent, inbuf, endk, net, pc, command, cur, resp, out, trace, store, mutex, crashed, lastSet,
          cv, cpc, cenc, cres>>

\* A Go map as a function on the set of its keys.
EmptyMap == [k \in {} |-> <<>>]
\* (the map replaced by one that holds the new entry only)
MapSetOnly(m, k, v) == [x \in {k} |-> v]

MapSet(m, k, v) == [x \in DOMAIN m \cup {k} |-> IF x = k THEN v ELSE m[x]]

\* The histories keep the first MaxIters entries.
Record(log, e) == IF Len(log) < MaxIters THEN Append(log, e) ELSE log

\* The reply of the iteration under way, when the history holds it.
SetResp(log, written, r) ==
  IF Len(log) > Len(written) THEN [log EXCEPT ![Len(log)].resp = r] ELSE log

NoCur == [key |-> <<>>, value |-> <<>>, exists |-> FALSE]

\* ------------------------------------------------------ client requests
BulkString(s) == [NewRESPValue(RESP_BULK_STRING) EXCEPT !.Str = s]
NullBulk == [NewRESPValue(RESP_BULK_STRING) EXCEPT !.IsNull = TRUE]
ArrayOf(elems) == [NewRESPValue(RESP_ARRAY) EXCEPT !.Array = elems]
NullArray == [NewRESPValue(RESP_ARRAY) EXCEPT !.IsNull = TRUE]
Integer(n) == [NewRESPValue(RESP_INTEGER) EXCEPT !.Num = n]
SimpleString(s) == [NewRESPValue(RESP_SIMPLE_STRING) EXCEPT !.Str = s]

\* The bytes a standard client sends for a command line of up to three words.
Request(words) ==
  <<"*">> \o Itoa(Len(words)) \o CRLF
    \o <<"$">> \o Itoa(Len(words[1])) \o CRLF \o words[1] \o CRLF
    \o (IF Len(words) < 2 THEN <<>>
        ELSE <<"$">> \o Itoa(Len(words[2])) \o CRLF \o words[2] \o CRLF)
    \o (IF Len(words) < 3 THEN <<>>
        ELSE <<"$">> \o Itoa(Len(words[3])) \o CRLF \o words[3] \o CRLF)

wSET == <<"S", "E", "T">>
wGET == <<"G", "E", "T">>
wPING == <<"P", "I", "N", "G">>
wquit == <<"q", "u", "I", "t">>
wECHO == <<"E", "C", "H", "O">>
wINFO == <<"i", "n", "f", "o">>
wFOO == <<"F", "O", "O">>

\* Frames of the specification of concurrent store commands.
Menu ==
  << Request(<<wSET, <<"k">>, <<"a">>>>),
     Request(<<wSET, <<"k">>, <<"b">>>>),
     Request(<<wSET, <<"j">>, <<"b">>>>),
     Request(<<wGET, <<"k">>>>) >>

\* Frames of the specification of one connection: one per way a frame can
\* be decoded and dispatched.
ProtoMenu ==
  << Request(<<wPING>>),
     Request(<<wquit>>),
     Request(<<wECHO, <<"h", "i">>>>),
     Request(<<wINFO>>),
     Request(<<wFOO>>),
     Request(<<wSET, <<"k">>, <<"a">>>>),
     Request(<<wSET, <<"k">>, <<>>>>),
     Request(<<wGET, <<"k">>>>),
     <<"+", "O", "K", CR, LF>>,
     <<"*", "0", CR, LF>>,
     <<"*", "-", "1", CR, LF>>,
     <<"?", CR, LF>>,
     <<CR, LF>>,
     <<":", "x", CR, LF>>,
     <<"$", "x", CR, LF>>,
     <<"*", "x", CR, LF>>,
     <<"*", "1", CR, LF, "?", CR, LF>>,
     Request(<<wSET, <<"j">>, <<"b">>>>),
     <<"*", "3", CR, LF, "$", "3", CR, LF, "S", "E", "T", CR, LF,
       ":", "1", CR, LF, "$", "1", CR, LF, "a", CR, LF>> >>

Frames(menu, script) == [i \in 1..Len(script) |-> menu[script[i]]]

RECURSIVE Concat(_)
Concat(frames) ==
  IF frames = <<>> THEN <<>> ELSE Head(frames) \o Concat(Tail(frames))

\* The ways to hand n frames of a menu of m frames to the connections.
RECURSIVE Level(_, _)
Level(m, n) ==
  IF n = 0 THEN {[c \in Conns |-> <<>>]}
  ELSE {[a EXCEPT ![c] = Append(@, f)] : a \in Level(m, n - 1), c \in Conns, f \in 1..m}

Scripts(m, n) == UNION {Level(m, k) : k \in 0..n}

RECURSIVE SeqsUpTo(_, _)
SeqsUpTo(m, n) ==
  IF n = 0 THEN {<<>>}
  ELSE SeqsUpTo(m, n - 1)
         \cup {Append(s, f) : s \in {t \in SeqsUpTo(m, n - 1) : Len(t) = n - 1}, f \in 1..m}

InitCodecIdle == cv = Nil /\ cpc = "idle" /\ cenc = <<>> /\ cres = Nil

InitServer ==
  /\ endk = [c \in Conns |-> "open"]
  /\ command = [c \in Conns |-> Nil]
  /\ cur = [c \in Conns |-> NoCur]
  /\ resp = [c \in Conns |-> Nil]
  /\ out = [c \in Conns |-> <<>>]
  /\ trace = [c \in Conns |-> <<>>]
  /\ store = EmptyMap
  /\ mutex = [w |-> FALSE, r |-> 0]
  /\ crashed = FALSE
  /\ lastSet = EmptyMap

\* NewRedisServer with connection 1 accepted: its client speaks every kind of
\* frame over a network that may fail.  The goroutines of the other
\* connections have ended.
Init ==
  /\ InitServer
  /\ InitCodecIdle
  /\ pc = [c \in Conns |-> IF c = 1 THEN "read" ELSE "closed"]
  /\ \E s \in SeqsUpTo(Len(ProtoMenu), MaxProtoFrames) :
       sent = [c \in Conns |-> IF c = 1 THEN Frames(ProtoMenu, s) ELSE <<>>]
  /\ inbuf = [c \in Conns |-> Concat(sent[c])]
  /\ net = [c \in Conns |-> IF c = 1 THEN "faulty" ELSE "reliable"]

\* NewRedisServer with the connections accepted whose clients send
\* something: the clients share store commands between them, over reliable
\* networks.  The connections are numbered by falling number of frames.
InitStore ==
  /\ InitServer
  /\ InitCodecIdle
  /\ \E sc \in Scripts(Len(Menu), MaxFrames) :
       /\ \A c, d \in Conns : c < d => Len(sc[c]) >= Len(sc[d])
       /\ sent = [c \in Conns |-> Frames(Menu, sc[c])]
  /\ pc = [c \in Conns |-> IF sent[c] = <<>> THEN "closed" ELSE "read"]
  /\ inbuf = [c \in Conns |-> Concat(sent[c])]
  /\ net = [c \in Conns |-> "reliable"]

\* ------------------------------------------------------- handleConnection
\* (every decode error ends the loop)
IsClosedErrAny(err) == TRUE

\* (the text compared in another letter case)
IsClosedErrLower(err) == err = <<"eof">>

\* err.Error() == "EOF"
IsClosedErr(err) == err = EOF

\* One pass of the loop from ParseRESP to the point where the goroutine
\* next touches the connection or the store: the error branches, and
\* processCommand up to a reply or up to the lock of handleSet/handleGet.
Decode(c) ==
  /\ ~crashed
  /\ pc[c] = "read"
  /\ \E r \in {ParseRESP(inbuf[c], endk[c])} :
     /\ r.st # "block"
     /\ inbuf' = [inbuf EXCEPT ![c] = r.rest]
     /\ CASE r.st = "panic" ->
               /\ crashed' = TRUE
               /\ UNCHANGED <<pc, command, cur, resp, trace>>
          [] r.st = "err" /\ IsClosedErr(r.err) ->
               /\ pc' = [pc EXCEPT ![c] = "closed"]
               /\ UNCHANGED <<crashed, command, cur, resp, trace>>
          [] r.st = "err" /\ ~IsClosedErr(r.err) ->
               LET errorResp == ErrorResp(<<"ERR ">> \o r.err) IN
               /\ resp' = [resp EXCEPT ![c] = errorResp]
               /\ trace' = [trace EXCEPT ![c] =
                              Record(@, [req |-> Nil, err |-> r.err, resp |-> errorResp])]
               /\ pc' = [pc EXCEPT ![c] = "write"]
               /\ UNCHANGED <<crashed, command, cur>>
          [] r.st = "ok" ->
               \E plan \in {processCommand(r.value)} :
               /\ command' = [command EXCEPT ![c] = r.value]
               /\ trace' = [trace EXCEPT ![c] =
                              Record(@, [req |-> r.value, err |-> NoErr, resp |-> plan.resp])]
               /\ resp' = [resp EXCEPT ![c] = plan.resp]
               /\ cur' = [cur EXCEPT ![c] =
                            [key |-> plan.key, value |-> plan.value, exists |-> FALSE]]
               /\ pc' = [pc EXCEPT ![c] =
                           CASE plan.op = "set" -> "set_lock"
                             [] plan.op = "get" -> "get_rlock"
                             [] OTHER -> "write"]
               /\ UNCHANGED crashed
  /\ UNCHANGED <<sent, endk, net, out, store, mutex, lastSet>>
  /\ UNCHANGED codecVars

\* sync.RWMutex: Lock waits for the writer and the readers to leave, RLock
\* for the writer.
\* (a Lock that does not wait for the readers)
CanLockNoReaders(m) == ~m.w

\* (a Lock that does not wait for the writer)
CanLockNoWriter(m) == m.r = 0

CanLock(m) == ~m.w /\ m.r = 0

CanRLock(m) == ~m.w

\* rs.mutex.Lock() in handleSet
Lock(c) ==
  /\ ~crashed
  /\ pc[c] = "set_lock"
  /\ CanLock(mutex)
  /\ mutex' = [mutex EXCEPT !.w = TRUE]
  /\ lastSet' = MapSet(lastSet, command[c].Array[2].Str,
                        [value |-> command[c].Array[3].Str, by |-> c])
  /\ pc' = [pc EXCEPT ![c] = "set_write"]
  /\ UNCHANGED <<sent, inbuf, endk, net, command, cur, resp, out, trace, store, crashed>>
  /\ UNCHANGED codecVars

\* rs.store[key] = value
StoreWrite(c) ==
  /\ ~crashed
  /\ pc[c] = "set_write"
  /\ store' = MapSet(store, cur[c].key, cur[c].value)
  /\ pc' = [pc EXCEPT ![c] = "set_unlock"]
  /\ UNCHANGED <<sent, inbuf, endk, net, command, cur, resp, out, trace, mutex, crashed, lastSet>>
  /\ UNCHANGED codecVars

\* rs.mutex.Unlock() and the rest of handleSet
Unlock(c) ==
  /\ ~crashed
  /\ pc[c] = "set_unlock"
  /\ mutex' = [mutex EXCEPT !.w = FALSE]
  /\ resp' = [resp EXCEPT ![c] = SetReply]
  /\ trace' = [trace EXCEPT ![c] = SetResp(@, out[c], SetReply)]
  /\ cur' = [cur EXCEPT ![c] = NoCur]
  /\ pc' = [pc EXCEPT ![c] = "write"]
  /\ UNCHANGED <<sent, inbuf, endk, net, command, out, store, crashed, lastSet>>
  /\ UNCHANGED codecVars

\* rs.mutex.RLock() in handleGet
RLock(c) ==
  /\ ~crashed
  /\ pc[c] = "get_rlock"
  /\ CanRLock(mutex)
  /\ mutex' = [mutex EXCEPT !.r = @ + 1]
  /\ pc' = [pc EXCEPT ![c] = "get_read"]
  /\ UNCHANGED <<sent, inbuf, endk, net, command, cur, resp, out, trace, store, crashed, lastSet>>
  /\ UNCHANGED codecVars

\* value, exists := rs.store[key]
StoreRead(c) ==
  /\ ~crashed
  /\ pc[c] = "get_read"
  /\ cur' = [cur EXCEPT ![c] =
               IF cur[c].key \in DOMAIN store
               THEN [key |-> cur[c].key, value |-> store[cur[c].key], exists |-> TRUE]
               ELSE [key |-> cur[c].key, value |-> <<>>, exists |-> FALSE]]
  /\ pc' = [pc EXCEPT ![c] = "get_runlock"]
  /\ UNCHANGED <<sent, inbuf, endk, net, command, resp, out, trace, store, mutex, crashed, lastSet>>
  /\ UNCHANGED codecVars

\* rs.mutex.RUnlock() and the rest of handleGet
RUnlock(c) ==
  /\ ~crashed
  /\ pc[c] = "get_runlock"
  /\ mutex' = [mutex EXCEPT !.r = @ - 1]
  /\ \E r \in {GetReply(cur[c].value, cur[c].exists)} :
     /\ resp' = [resp EXCEPT ![c] = r]
     /\ trace' = [trace EXCEPT ![c] = SetResp(@, out[c], r)]
  /\ cur' = [cur EXCEPT ![c] = NoCur]
  /\ pc' = [pc EXCEPT ![c] = "write"]
  /\ UNCHANGED <<sent, inbuf, endk, net, command, out, store, crashed, lastSet>>
  /\ UNCHANGED codecVars

WriteOutcomes(c) ==
  IF net[c] = "reliable" THEN {TRUE}
  ELSE IF endk[c] = "reset" \/ (out[c] # <<>> /\ ~out[c][Len(out[c])].ok) THEN {FALSE}
  ELSE {TRUE, FALSE}

\* conn.Write(resp.SerializeRESP()); its error is dropped and the loop goes
\* on.  A write fails or not as the network decides; after a failed write
\* every later write of the connection fails too.
Write(c) ==
  /\ ~crashed
  /\ pc[c] = "write"
  /\ \E ok \in WriteOutcomes(c) :
       out' = [out EXCEPT ![c] = Record(@, [data |-> SerializeRESP(resp[c]), ok |-> ok])]
  /\ resp' = [resp EXCEPT ![c] = Nil]
  /\ pc' = [pc EXCEPT ![c] = "read"]
  /\ command' = [command EXCEPT ![c] = Nil]
  /\ UNCHANGED <<sent, inbuf, endk, net, cur, trace, store, mutex, crashed, lastSet>>
  /\ UNCHANGED codecVars

\* The client ends the connection, by closing it or by a reset.  Until the
\* reader has used up the bytes sent before, the goroutine cannot tell.
ClientClose(c) ==
  /\ ~crashed
  /\ endk[c] = "open"
  /\ pc[c] = "read"
  /\ ParseRESP(inbuf[c], "open").st = "block"
  /\ \E k \in (IF net[c] = "reliable" THEN {"eof"} ELSE {"eof", "reset"}) :
       endk' = [endk EXCEPT ![c] = k]
  /\ UNCHANGED <<sent, inbuf, net, pc, command, cur, resp, out, trace, store, mutex, crashed, lastSet>>
  /\ UNCHANGED codecVars

Next ==
  \E c \in Conns :
    \/ Decode(c)
    \/ Lock(c)
    \/ StoreWrite(c)
    \/ Unlock(c)
    \/ RLock(c)
    \/ StoreRead(c)
    \/ RUnlock(c)
    \/ Write(c)
    \/ ClientClose(c)

Spec == Init /\ [][Next]_vars

SpecStore == InitStore /\ [][Next]_vars

\* Frames of the specification of a connection that ends or breaks: frames
\* that stop short of their end, lengths below -1, and whole commands.
FaultMenu ==
  << Request(<<wPING>>),
     Request(<<wSET, <<"k">>, <<"a">>>>),
     Request(<<wGET, <<"k">>>>),
     <<"$", "-", "2", CR, LF>>,
     <<"*", "-", "2", CR, LF>>,
     <<"+", "O", "K">>,
     <<"$", "5", CR, LF, "a", "b", "c">>,
     <<"$", "1", CR, LF, "k">>,
     <<"*", "2", CR, LF, "$", "4", CR, LF, "P", "I", "N", "G", CR, LF>> >>

\* NewRedisServer with connection 1 accepted: its client sends frames of
\* FaultMenu over a network that may fail, and ends the connection when it
\* likes.
InitFault ==
  /\ InitServer
  /\ InitCodecIdle
  /\ pc = [c \in Conns |-> IF c = 1 THEN "read" ELSE "closed"]
  /\ \E s \in SeqsUpTo(Len(FaultMenu), MaxProtoFrames) :
       sent = [c \in Conns |-> IF c = 1 THEN Frames(FaultMenu, s) ELSE <<>>]
  /\ inbuf = [c \in Conns |-> Concat(sent[c])]
  /\ net = [c \in Conns |-> IF c = 1 THEN "faulty" ELSE "reliable"]

SpecFault == InitFault /\ [][Next]_vars

TypeOK ==
  /\ \A c \in Conns : pc[c] \in {"read", "set_lock", "set_write", "set_unlock",
                                 "get_rlock", "get_read", "get_runlock", "write", "closed"}
  /\ mutex.r \in 0..NumConns

\* ------------------------------------------- the codec and the dispatcher
\* as functions of a value
Leaves ==
  { SimpleString(<<"O", "K">>), SimpleString(<<>>),
    [NewRESPValue(RESP_ERROR) EXCEPT !.Str = <<"E", "R", "R", " ", "x">>],
    Integer(0), Integer(-7), Integer(10),
    BulkString(<<>>), BulkString(<<"k">>), BulkString(<<"a", CR, LF, "b">>),
    NullBulk, NullArray }

RECURSIVE Size(_), SizeAll(_)
Size(v) == 1 + SizeAll(v.Array)
SizeAll(vs) == IF vs = <<>> THEN 0 ELSE Size(Head(vs)) + SizeAll(Tail(vs))

\* The values of at most n nodes, and the sequences of values of at most n
\* nodes in all.
RECURSIVE Values(_), Forests(_)
Values(n) ==
  IF n = 0 THEN {} ELSE Leaves \cup {ArrayOf(f) : f \in Forests(n - 1)}
Forests(n) ==
  IF n = 0 THEN {<<>>}
  ELSE {<<>>} \cup UNION {{<<v>> \o f : f \in Forests(n - Size(v))} : v \in Values(n)}

\* What a client can put into a command: the names in mixed case, keys and
\* values, and elements that are no bulk strings.
Words ==
  { BulkString(<<"p", "I", "n", "g">>), BulkString(wECHO), BulkString(wSET),
    BulkString(<<"g", "e", "t">>), BulkString(wquit), BulkString(wINFO),
    BulkString(wFOO), BulkString(<<"k">>), NullBulk, Integer(1), ArrayOf(<<>>) }

RECURSIVE WordSeqs(_)
WordSeqs(n) ==
  IF n = 0 THEN {<<>>}
  ELSE WordSeqs(n - 1)
         \cup {Append(s, w) : s \in {t \in WordSeqs(n - 1) : Len(t) = n - 1}, w \in Words}

TestValues == Values(MaxNodes) \cup {ArrayOf(ws) : ws \in WordSeqs(MaxWords)}

\* No connection is open; a value is picked.
InitCodec ==
  /\ InitServer
  /\ pc = [c \in Conns |-> "closed"]
  /\ sent = [c \in Conns |-> <<>>]
  /\ inbuf = [c \in Conns |-> <<>>]
  /\ net = [c \in Conns |-> "reliable"]
  /\ cv \in TestValues
  /\ cpc = "start"
  /\ cenc = <<>>
  /\ cres = Nil

\* cv.SerializeRESP()
Encode ==
  /\ cpc = "start"
  /\ cenc' = SerializeRESP(cv)
  /\ cpc' = "encoded"
  /\ UNCHANGED <<cv, cres>>
  /\ UNCHANGED srvVars

\* ParseRESP on a reader that holds the encoding and then ends
DecodeBack ==
  /\ cpc = "encoded"
  /\ cres' = ParseRESP(cenc, "eof")
  /\ cpc' = "decoded"
  /\ UNCHANGED <<cv, cenc>>
  /\ UNCHANGED srvVars

\* rs.processCommand(cv), up to the store section
Dispatch ==
  /\ cpc = "start"
  /\ cres' = processCommand(cv)
  /\ cpc' = "dispatched"
  /\ UNCHANGED <<cv, cenc>>
  /\ UNCHANGED srvVars

\* ParseRESP on a reader that holds the first n bytes of the encoding, n
\* short of all, and then ends
DecodeCut ==
  /\ cpc = "encoded"
  /\ \E n \in 0..(Len(cenc) - 1) :
       /\ cenc' = SubSeq(cenc, 1, n)
       /\ cres' = ParseRESP(SubSeq(cenc, 1, n), "eof")
  /\ cpc' = "cut"
  /\ UNCHANGED cv
  /\ UNCHANGED srvVars

NextCodec == Encode \/ DecodeBack \/ DecodeCut \/ Dispatch

SpecCodec == InitCodec /\ [][NextCodec]_vars

\* ================================================================ claims
wQUIT == <<"Q", "U", "I", "T">>

\* v is a command array whose name is `name` in some letter case.
IsCommand(v, name) ==
  /\ v.Type = RESP_ARRAY
  /\ ~v.IsNull
  /\ Len(v.Array) >= 1
  /\ v.Array[1].Type = RESP_BULK_STRING
  /\ ToUpper(v.Array[1].Str) = name

InWriteSection(c) == pc[c] \in {"set_write", "set_unlock"}
InReadSection(c) == pc[c] \in {"get_read", "get_runlock"}

\* C1: once the reply to a QUIT (in any letter case) has been written, the
\* worker decodes no further request from that connection and writes no
\* further reply.
C1_QuitCloses ==
  \A c \in Conns : \A i \in 1..Len(trace[c]) :
    (IsCommand(trace[c][i].req, wQUIT) /\ i <= Len(out[c]) /\ out[c][i].ok)
      => (Len(trace[c]) = i /\ Len(out[c]) = i)

\* C2: decoding the bytes of SerializeRESP(v) succeeds and gives back v, for
\* every value v, nulls, empty containers and nested arrays included.
C2_RoundTrip ==
  cpc = "decoded" => (cres.st = "ok" /\ cres.value = cv)

\* C3: while a worker is inside the write section of SET, no other worker is
\* inside the write section of SET or the read section of GET.
C3_MutualExclusion ==
  \A c, d \in Conns :
    (c # d /\ InWriteSection(c)) => (~InWriteSection(d) /\ ~InReadSection(d))

\* A writer is inside while another worker waits for the lock.
C3_Witness ==
  \E c, d \in Conns :
    c # d /\ InWriteSection(c) /\ pc[d] \in {"set_lock", "get_rlock"}

\* Two workers inside the read section of GET at once.
C3_TwoReaders ==
  \E c, d \in Conns : c # d /\ InReadSection(c) /\ InReadSection(d)

\* v is a SET command that passes the checks of handleSet.
IsSet(v) ==
  /\ IsCommand(v, wSET)
  /\ Len(v.Array) >= 3
  /\ v.Array[2].Type = RESP_BULK_STRING
  /\ v.Array[3].Type = RESP_BULK_STRING

\* v is a GET command that passes the checks of handleGet.
IsGet(v) ==
  /\ IsCommand(v, wGET)
  /\ Len(v.Array) >= 2
  /\ v.Array[2].Type = RESP_BULK_STRING

\* The key of a SET or GET command, the value of a SET command.
KeyOf(v) == v.Array[2].Str
ValueOf(v) == v.Array[3].Str

\* Connection c has written the reply to a SET of key k to value v.
SetDone(c, k, v) ==
  \E i \in 1..Len(out[c]) :
    /\ IsSet(trace[c][i].req)
    /\ KeyOf(trace[c][i].req) = k
    /\ ValueOf(trace[c][i].req) = v

\* C4: the store maps each key to the value of the SET that entered the
\* exclusive section last (as soon as that SET has written), and a GET of
\* the key replies with that value.
C4_LastWriterWins ==
  /\ DOMAIN store \subseteq DOMAIN lastSet
  /\ \A k \in DOMAIN lastSet :
       (\A c \in Conns : pc[c] = "set_write" => KeyOf(command[c]) # k)
         => (k \in DOMAIN store /\ store[k] = lastSet[k].value)
  /\ \A c \in Conns :
       (pc[c] = "get_runlock" /\ KeyOf(command[c]) \in DOMAIN lastSet)
         => GetReply(cur[c].value, cur[c].exists)
              = BulkString(lastSet[KeyOf(command[c])].value)

\* Two connections have completed SETs of the same key to different values
\* and a GET of that key has read the store.
C4_Witness ==
  \E c, d \in Conns :
    /\ c # d
    /\ SetDone(c, <<"k">>, <<"a">>)
    /\ SetDone(d, <<"k">>, <<"b">>)
    /\ \E e \in Conns : pc[e] = "get_runlock" /\ KeyOf(command[e]) = <<"k">>

\* The reply r fits the request req as the reply of the dispatcher.
ReplyFits(req, r) ==
  LET plan == processCommand(req) IN
  CASE plan.op = "set" -> r = [NewRESPValue(RESP_SIMPLE_STRING) EXCEPT !.Str = <<"O", "K">>]
    [] plan.op = "get" -> r.Type = RESP_BULK_STRING
    [] OTHER -> r = plan.resp

\* C5: on a connection whose client sends well-formed requests back to back
\* (every frame of SpecStore is one), the i-th request decoded is the i-th
\* request sent, the i-th write is the reply of the dispatcher to it, a
\* request is decoded only when the reply to the one before is written, and
\* the worker ends only when every request has its reply.
C5_Sequential ==
  \A c \in Conns :
    LET n == Len(trace[c])
        m == Len(out[c])
    IN /\ n <= Len(sent[c])
       /\ \A i \in 1..n :
            /\ trace[c][i].req # Nil
            /\ SerializeRESP(trace[c][i].req) = sent[c][i]
       /\ m <= n /\ n <= m + 1
       /\ (pc[c] \in {"read", "closed"}) <=> (m = n)
       /\ \A i \in 1..m :
            /\ out[c][i].data = SerializeRESP(trace[c][i].resp)
            /\ ReplyFits(trace[c][i].req, trace[c][i].resp)
       /\ pc[c] = "closed" => m = Len(sent[c])

\* A connection has two replies written while another one has been served.
C5_Witness ==
  \E c, d \in Conns : c # d /\ Len(out[c]) >= 2 /\ Len(out[d]) >= 1

\* The decode of connection c fails with an error that is not "EOF".
DecodeFails(c) ==
  LET r == ParseRESP(inbuf[c], endk[c]) IN r.st = "err" /\ r.err # EOF

\* C6: a decode failure that is not the closed condition makes the worker
\* write exactly one Error value and go back to reading, the connection
\* still open.
C6_DecodeErrorReplied ==
  [][\A c \in Conns :
       /\ (pc[c] = "read" /\ pc'[c] # "read" /\ DecodeFails(c))
            => /\ pc'[c] = "write"
               /\ resp'[c].Type = RESP_ERROR
               /\ out'[c] = out[c]
       /\ (pc[c] = "write" /\ command[c] = Nil /\ pc'[c] # "write")
            => /\ pc'[c] = "read"
               /\ Len(out[c]) < MaxIters
                    => /\ Len(out'[c]) = Len(out[c]) + 1
                       /\ SubSeq(out'[c], 1, Len(out[c])) = out[c]
                       /\ out'[c][Len(out'[c])].data = SerializeRESP(resp[c])
                       /\ resp[c].Type = RESP_ERROR]_vars

\* An unknown tag byte and then a non-numeric bulk length have each been
\* answered and the worker reads on.
C6_Witness ==
  \E c \in Conns :
    /\ pc[c] = "read"
    /\ Len(out[c]) = 2
    /\ trace[c][1].req = Nil /\ trace[c][1].err[1] = "unknown RESP type: "
    /\ trace[c][2].req = Nil /\ trace[c][2].err[1] = "invalid bulk string length: "
    /\ out[c][2].data[1] = RESP_ERROR

\* C7: after a failed write of a reply the worker decodes and processes no
\* further request of that connection.
C7_WriteFailureFatal ==
  \A c \in Conns : \A i \in 1..Len(out[c]) :
    ~out[c][i].ok => Len(trace[c]) <= i

Recognized ==
  { <<"P", "I", "N", "G">>, <<"E", "C", "H", "O">>, <<"S", "E", "T">>,
    <<"G", "E", "T">>, <<"Q", "U", "I", "T">>, <<"I", "N", "F", "O">> }

\* The arity and type errors of the commands.
CommandErrors ==
  { <<"ERR wrong number of arguments for 'echo' command">>,
    <<"ERR Protocol error: expected bulk string for echo argument">>,
    <<"ERR wrong number of arguments for 'set' command">>,
    <<"ERR Protocol error: expected bulk string for key and value">>,
    <<"ERR wrong number of arguments for 'get' command">>,
    <<"ERR Protocol error: expected bulk string for key">> }

\* The arguments the command named `name` requires are missing or are no
\* bulk strings.
BadArguments(v, name) ==
  LET need == CASE name = <<"S", "E", "T">> -> 2
                [] name \in {<<"E", "C", "H", "O">>, <<"G", "E", "T">>} -> 1
                [] OTHER -> 0
  IN \/ Len(v.Array) < 1 + need
     \/ \E i \in 2..(1 + need) : v.Array[i].Type # RESP_BULK_STRING

\* The number of the first check of the validation order that v fails, 0
\* when it passes them all.
FirstFailingCheck(v) ==
  IF v.Type # RESP_ARRAY \/ v.IsNull THEN 1
  ELSE IF Len(v.Array) = 0 THEN 2
  ELSE IF v.Array[1].Type # RESP_BULK_STRING THEN 3
  ELSE IF ToUpper(v.Array[1].Str) \notin Recognized THEN 4
  ELSE IF BadArguments(v, ToUpper(v.Array[1].Str)) THEN 5
  ELSE 0

\* C8: processCommand returns for every value, and what it returns is the
\* error of the first failing check of the order: expected array, empty
\* command, expected bulk string for command, unknown command, then the
\* arity or type error of the command.
C8_DispatchOrder ==
  cpc = "dispatched" =>
    LET k == FirstFailingCheck(cv) IN
    /\ cres.op \in {"reply", "set", "get"}
    /\ cres.op = "reply"
         => cres.resp.Type \in {RESP_SIMPLE_STRING, RESP_ERROR, RESP_BULK_STRING}
    /\ k = 1 => cres = Reply(ErrorResp(<<"ERR Protocol error: expected array">>))
    /\ k = 2 => cres = Reply(ErrorResp(<<"ERR empty command">>))
    /\ k = 3 => cres = Reply(ErrorResp(
                         <<"ERR Protocol error: expected bulk string for command">>))
    /\ k = 4 => cres = Reply(ErrorResp(<<"ERR unknown command '">>
                                         \o ToUpper(cv.Array[1].Str) \o <<"'">>))
    /\ k = 5 => /\ cres.op = "reply"
                /\ cres.resp.Type = RESP_ERROR
                /\ cres.resp.Str \in CommandErrors
    /\ k = 0 => (cres.op \in {"set", "get"} \/ cres.resp.Type # RESP_ERROR)

\* A command of a recognized name with a bad argument list has been
\* dispatched.
C8_Witness ==
  cpc = "dispatched" /\ FirstFailingCheck(cv) = 5 /\ Len(cv.Array) >= 2

\* C9: the reply of GET k is the null bulk string exactly when no SET of k
\* has been applied, and it is a non-null bulk string of length 0 when the
\* value last set is the empty string; the two replies differ, also on the
\* wire.
C9_GetAbsentVsEmpty ==
  [][\A c \in Conns :
       (pc[c] = "get_runlock" /\ pc'[c] = "write") =>
         LET k == KeyOf(command[c]) IN
         /\ resp'[c].Type = RESP_BULK_STRING
         /\ resp'[c].IsNull <=> k \notin DOMAIN lastSet
         /\ (k \in DOMAIN lastSet /\ lastSet[k].value = <<>>)
              => /\ resp'[c] = BulkString(<<>>)
                 /\ SerializeRESP(resp'[c]) # SerializeRESP(NullBulk)]_vars

\* A GET of a key set to the empty string has been answered with the
\* non-null empty bulk string.
C9_Witness ==
  \E c \in Conns :
    /\ Len(out[c]) = 2
    /\ IsSet(trace[c][1].req) /\ ValueOf(trace[c][1].req) = <<>>
    /\ IsGet(trace[c][2].req) /\ KeyOf(trace[c][2].req) = KeyOf(trace[c][1].req)
    /\ out[c][2].data = <<"$", "0", CR, LF, CR, LF>>

\* The value of the last SET of key k that connection c has replied OK to.
OwnSets(c, k) ==
  {i \in 1..Len(out[c]) :
     /\ IsSet(trace[c][i].req)
     /\ KeyOf(trace[c][i].req) = k
     /\ out[c][i].data = <<"+", "O", "K", CR, LF>>}

OwnLastValue(c, k) ==
  ValueOf(trace[c][CHOOSE i \in OwnSets(c, k) : \A j \in OwnSets(c, k) : j <= i].req)

\* C10: a GET k of a connection replies with the value of the last SET k the
\* same connection has replied OK to, when no other connection has taken
\* the write lock for k since; SETs of other keys do not matter.
C10_ReadYourWrites ==
  [][\A c \in Conns :
       (pc[c] = "get_runlock" /\ pc'[c] = "write") =>
         LET k == KeyOf(command[c]) IN
         (k \in DOMAIN lastSet /\ lastSet[k].by = c)
           => /\ OwnSets(c, k) # {}
              /\ resp'[c] = BulkString(OwnLastValue(c, k))]_vars

\* A connection has set k to a and read a back while another connection
\* has set the key j.
C10_Witness ==
  \E c, d \in Conns :
    /\ c # d
    /\ Len(out[c]) >= 2
    /\ IsSet(trace[c][1].req) /\ KeyOf(trace[c][1].req) = <<"k">>
    /\ ValueOf(trace[c][1].req) = <<"a">>
    /\ IsGet(trace[c][2].req) /\ KeyOf(trace[c][2].req) = <<"k">>
    /\ trace[c][2].resp = BulkString(<<"a">>)
    /\ SetDone(d, <<"j">>, <<"b">>)

\* The number of arguments the command named `name` takes.
ArgCount(name) ==
  CASE name = <<"S", "E", "T">> -> 2
    [] name \in {<<"E", "C", "H", "O">>, <<"G", "E", "T">>} -> 1
    [] OTHER -> 0

\* The arity error of the command named `name`.
ArityError(name) ==
  CASE name = <<"E", "C", "H", "O">> ->
         <<"ERR wrong number of arguments for 'echo' command">>
    [] name = <<"S", "E", "T">> ->
         <<"ERR wrong number of arguments for 'set' command">>
    [] name = <<"G", "E", "T">> ->
         <<"ERR wrong number of arguments for 'get' command">>

\* v is an invocation of ECHO, SET or GET, in some letter case.
TakesArguments(v) ==
  IsCommand(v, <<"E", "C", "H", "O">>) \/ IsCommand(v, wSET) \/ IsCommand(v, wGET)

\* C11: an ECHO, SET or GET with another number of arguments than it takes,
\* fewer or more, gets the arity error of the command and does not go to
\* the store.
C11_ExactArity ==
  (cpc = "dispatched" /\ TakesArguments(cv)
     /\ Len(cv.Array) # 1 + ArgCount(ToUpper(cv.Array[1].Str)))
    => /\ cres.op = "reply"
       /\ cres.resp = ErrorResp(ArityError(ToUpper(cv.Array[1].Str)))

\* C12: when the stream of a connection ends with no byte of a further frame
\* read, the worker goes from reading to closed at once, and neither
\* prepares nor writes a reply.
C12_CleanEOFCloses ==
  [][\A c \in Conns :
       (pc[c] = "read" /\ inbuf[c] = <<>> /\ endk[c] = "eof")
         => /\ pc'[c] \in {"read", "closed"}
            /\ out'[c] = out[c]
            /\ trace'[c] = trace[c]
            /\ resp'[c] = resp[c]]_vars

\* A connection has got its PONG, the client has closed and the worker has
\* ended.
C12_Witness ==
  \E c \in Conns :
    /\ pc[c] = "closed"
    /\ endk[c] = "eof"
    /\ Len(out[c]) = 1
    /\ out[c][1].data = <<"+", "P", "O", "N", "G", CR, LF>>

\* The numbers of bytes of the encoding of v, counted from offset off, at
\* which the header of a non-null bulk string inside v is complete and its
\* payload is not.
RECURSIVE TruncPoints(_, _), TruncPointsAll(_, _, _)
TruncPoints(v, off) ==
  CASE v.Type = RESP_BULK_STRING /\ ~v.IsNull ->
         LET h == off + 3 + Len(Itoa(Len(v.Str))) IN h..(h + Len(v.Str) - 1)
    [] v.Type = RESP_ARRAY ->
         TruncPointsAll(v.Array, 1, off + 3 + Len(Itoa(Len(v.Array))))
    [] OTHER -> {}
TruncPointsAll(arr, i, off) ==
  IF i > Len(arr) THEN {}
  ELSE TruncPoints(arr[i], off)
         \cup TruncPointsAll(arr, i + 1, off + Len(SerializeRESP(arr[i])))

\* C13: when the stream ends inside the payload of a bulk string, alone or
\* as an element of an array, ParseRESP returns an error and no value.
C13_TruncatedBulkFails ==
  (cpc = "cut" /\ Len(cenc) \in TruncPoints(cv, 0))
    => (cres.st = "err" /\ cres.value = Nil)

\* The bulk string "a\r\nb" cut after its first three payload bytes.
C13_Witness ==
  /\ cpc = "cut"
  /\ cv = BulkString(<<"a", CR, LF, "b">>)
  /\ cenc = <<"$", "4", CR, LF, "a", CR, LF>>
  /\ cres.st = "err"
  /\ cres.err = <<"failed to read bulk string: ", "unexpected EOF">>

\* buf starts with a whole bulk-string or array header whose length is a
\* negative number other than -1.
BadLength(buf) ==
  /\ IndexLF(buf, 1) > 0
  /\ LET line == TrimSpace(SubSeq(buf, 1, IndexLF(buf, 1))) IN
     /\ Len(line) >= 2
     /\ line[1] \in {RESP_BULK_STRING, RESP_ARRAY}
     /\ Atoi(Tail(line)).ok
     /\ Atoi(Tail(line)).n < -1

\* C14: a frame whose length header is negative and not -1 makes the worker
\* answer with an Error value and read on; the process does not die and the
\* store stays as it is.
C14_BadLengthIsError ==
  [][\A c \in Conns :
       (pc[c] = "read" /\ BadLength(inbuf[c]) /\ inbuf'[c] # inbuf[c])
         => /\ ~crashed'
            /\ pc'[c] = "write"
            /\ resp'[c].Type = RESP_ERROR
            /\ store' = store]_vars

\* buf starts with a whole bulk-string header of a length n >= 0, followed
\* by the n payload bytes and two bytes more.
BulkAhead(buf) ==
  /\ IndexLF(buf, 1) > 0
  /\ LET line == TrimSpace(SubSeq(buf, 1, IndexLF(buf, 1))) IN
     /\ Len(line) >= 2
     /\ line[1] = RESP_BULK_STRING
     /\ Atoi(Tail(line)).ok
     /\ Atoi(Tail(line)).n >= 0
     /\ Len(buf) >= IndexLF(buf, 1) + Atoi(Tail(line)).n + 2

\* The place of the last payload byte of the bulk string buf starts with.
PayloadEnd(buf) ==
  IndexLF(buf, 1) + Atoi(Tail(TrimSpace(SubSeq(buf, 1, IndexLF(buf, 1))))).n

\* The length of the line terminator at place e + 1 of buf, 0 when there is
\* none.
TerminatorLen(buf, e) ==
  IF buf[e + 1] = LF THEN 1
  ELSE IF buf[e + 1] = CR /\ buf[e + 2] = LF THEN 2
  ELSE 0

\* C15: decoding a bulk string takes the header, the n payload bytes and the
\* line terminator right after them, and nothing more; when no line
\* terminator follows the payload the decode fails.
C15_BulkTerminator ==
  [][\A c \in Conns :
       (pc[c] = "read" /\ BulkAhead(inbuf[c]) /\ inbuf'[c] # inbuf[c])
         => LET e == PayloadEnd(inbuf[c])
                t == TerminatorLen(inbuf[c], e)
            IN IF t > 0
               THEN /\ inbuf'[c] = SubSeq(inbuf[c], e + t + 1, Len(inbuf[c]))
                    /\ command'[c] =
                         BulkString(SubSeq(inbuf[c], IndexLF(inbuf[c], 1) + 1, e))
               ELSE /\ command'[c] = Nil
                    /\ pc'[c] = "write"
                    /\ resp'[c].Type = RESP_ERROR]_vars

\* C16: a worker that stands at the top of its loop with nothing left in
\* the reader, on a connection that has ended or broken, leaves the loop on
\* that read and is closed.  (The loop keeps nothing from one iteration to
\* the next but the reader: a worker that goes round once from there stands
\* where it stood and goes round for ever.)
C16_WorkerTerminates ==
  [][\A c \in Conns :
       (pc[c] = "read" /\ inbuf[c] = <<>> /\ endk[c] # "open" /\ pc'[c] # "read")
         => pc'[c] = "closed"]_vars

\* C17: a step that changes the store is the map write of a worker inside
\* handleSet, whose command is a SET that passed the checks, and it changes
\* the store at the key of that SET only, to its value.  So no other
\* command, no request answered with an error and no connection event
\* changes the store.
C17_OnlySetWrites ==
  [][store' # store =>
       \E c \in Conns :
         /\ pc[c] = "set_write" /\ pc'[c] = "set_unlock"
         /\ IsSet(command[c])
         /\ command[c] = trace[c][Len(trace[c])].req
         /\ store' = MapSet(store, KeyOf(command[c]), ValueOf(command[c]))
         /\ \A k \in DOMAIN store \ {KeyOf(command[c])} : store'[k] = store[k]]_vars

\* After a SET k a, a request has been answered with an Error value and the
\* store is as the SET left it.
C17_Witness ==
  \E c \in Conns :
    /\ Len(out[c]) = 2
    /\ IsSet(trace[c][1].req)
    /\ trace[c][2].resp.Type = RESP_ERROR
    /\ store = MapSet(EmptyMap, <<"k">>, <<"a">>)

\* C18: the reply to ECHO with one bulk string argument is a bulk string
\* equal to the argument, in content and in IsNull.
C18_EchoUnchanged ==
  (cpc = "dispatched" /\ IsCommand(cv, wECHO) /\ Len(cv.Array) = 2
     /\ cv.Array[2].Type = RESP_BULK_STRING)
    => /\ cres.op = "reply"
       /\ cres.resp.Type = RESP_BULK_STRING
       /\ cres.resp.Str = cv.Array[2].Str
       /\ cres.resp.IsNull = cv.Array[2].IsNull

\* The stream of connection c has ended and the bytes left in the reader
\* are no whole frame: none at all, or a frame that stops inside its tag
\* line, its payload, its terminator or its elements.
StreamEnded(c) ==
  endk[c] = "eof" /\ ParseRESP(inbuf[c], "open").st = "block"

\* C19: wherever the end of the stream falls, between frames or inside one,
\* the worker that reads it goes to closed and neither prepares nor writes a
\* reply.
C19_EOFAnywhereCloses ==
  [][\A c \in Conns :
       (pc[c] = "read" /\ StreamEnded(c) /\ pc'[c] # "read")
         => /\ pc'[c] = "closed"
            /\ out'[c] = out[c]
            /\ resp'[c] = resp[c]]_vars

\* Connection d has written, as its i-th reply, a non-null bulk string to a
\* GET of key k.
GotValue(d, i, k) ==
  /\ i <= Len(out[d])
  /\ IsGet(trace[d][i].req)
  /\ KeyOf(trace[d][i].req) = k
  /\ trace[d][i].resp.Type = RESP_BULK_STRING
  /\ ~trace[d][i].resp.IsNull

\* The values of the SETs of key k that have been applied to the store.
AppliedValues(k) ==
  { ValueOf(trace[d[1]][d[2]].req) :
      d \in { e \in Conns \X (1..MaxIters) :
                /\ e[2] <= Len(trace[e[1]])
                /\ IsSet(trace[e[1]][e[2]].req)
                /\ KeyOf(trace[e[1]][e[2]].req) = k
                /\ \/ e[2] <= Len(out[e[1]])
                   \/ pc[e[1]] \in {"set_unlock", "write"} } }

\* C20: no step removes a key from the store; a GET of a key for which some
\* GET has been answered with a non-null bulk string is answered with a
\* non-null bulk string, and the content of a non-null answer is the value
\* of a SET of that key applied before.
C20_KeysOnlyGrow ==
  [][/\ DOMAIN store \subseteq DOMAIN store'
     /\ \A c \in Conns :
          (pc[c] = "get_runlock" /\ pc'[c] = "write") =>
            LET k == KeyOf(command[c]) IN
            /\ resp'[c].Type = RESP_BULK_STRING
            /\ (\E d \in Conns : \E i \in 1..Len(trace[d]) : GotValue(d, i, k))
                 => ~resp'[c].IsNull
            /\ ~resp'[c].IsNull => resp'[c].Str \in AppliedValues(k)]_vars

\* Two GETs of k have been answered with a non-null bulk string.
C20_Witness ==
  \E c, d \in Conns : \E i \in 1..Len(trace[c]) : \E j \in 1..Len(trace[d]) :
    /\ c # d \/ i # j
    /\ GotValue(c, i, <<"k">>)
    /\ GotValue(d, j, <<"k">>)

====
